---- MODULE Spec2Model ----
(***************************************************************************)
(* WS28xx transmitter of bl602-ws2811: the colour buffer of a LogicalStrip, *)
(* its encoding per PhysicalStrip (src/src/leds.rs), the pin / timer        *)
(* control surface (src/src/pins.rs) and the strip configuration of         *)
(* src/src/main.rs.                                                         *)
(*                                                                         *)
(* Arrays are functions over 0..n-1 so that indices read as in the source.  *)
(***************************************************************************)
EXTENDS Integers, Sequences, FiniteSets, TLC

VARIABLES
    ALL_STRIPS,    \* main.rs: the table NUM_LEDS and the scratch capacity come from
    strips,        \* LogicalStrip.strips: the table handed to LogicalStrip::new
    color_buffer,  \* LogicalStrip.color_buffer: [Color; NUM_LEDS]
    pc,            \* position of the single thread of control
    call,          \* arguments of the call of main that is in progress
    strip_idx,     \* send_all_sequential: position of `for strip in self.strips`
    start_index,   \* send_all_sequential: start_index
    byte_buffer,   \* send_all_sequential: byte_buffer returned by colors_to_bytes
    byte_count,    \* send_all_sequential: byte_count
    delay_i,       \* send_bits: loops of the reset delay completed
    bit_idx,       \* send_bits: bits of bit_buffer consumed
    arm_ip,        \* send_bits: statements of the current match arm executed
    pins,          \* PinControl.pins: level of each output line
    timer,         \* PinControl.timer: the hardware timer channel
    wire,          \* observation: per strip, the events of its transmit in this call
    last_wire      \* observation: what the call before emitted, while the buffer
                   \* has not been written since

vars == <<ALL_STRIPS, last_wire, strips, color_buffer, pc, call, strip_idx, start_index,
          byte_buffer, byte_count, delay_i, bit_idx, arm_ip, pins, timer,
          wire>>

-----------------------------------------------------------------------------
(* Bounds of the model *)

\* how far past the end of the buffer main's indices go
MaxPastEnd == 2

-----------------------------------------------------------------------------
(* leds.rs: constants and ColorOrder *)

WS2811_ADAFRUIT == [zero_h |-> 500, one_h |-> 1200, full_cycle |-> 2500]
WS2812_ADAFRUIT == [zero_h |-> 400, one_h |-> 800, full_cycle |-> 1250]

WS2811_DELAY_LOOPS_BEFORE_SEND == 900


ColorOrder == {"RGB", "RBG", "GRB", "GBR", "BRG", "BGR"}

\* ColorOrder::offsets: [usize; 3] as a function over 0..2
Arr3(a, b, c) == [k \in 0..2 |-> IF k = 0 THEN a ELSE IF k = 1 THEN b ELSE c]

\* the table with a repeated offset in the row of GRB
OffsetsCollide(order) ==
    CASE order = "RGB" -> Arr3(0, 1, 2)
      [] order = "RBG" -> Arr3(0, 2, 1)
      [] order = "GRB" -> Arr3(1, 1, 2)
      [] order = "BRG" -> Arr3(1, 2, 0)
      [] order = "GBR" -> Arr3(2, 0, 1)
      [] order = "BGR" -> Arr3(2, 1, 0)

\* the table with the rows of BRG and GBR exchanged
OffsetsSwapped(order) ==
    CASE order = "RGB" -> Arr3(0, 1, 2)
      [] order = "RBG" -> Arr3(0, 2, 1)
      [] order = "GRB" -> Arr3(1, 0, 2)
      [] order = "BRG" -> Arr3(2, 0, 1)
      [] order = "GBR" -> Arr3(1, 2, 0)
      [] order = "BGR" -> Arr3(2, 1, 0)

offsets(order) ==
    CASE order = "RGB" -> Arr3(0, 1, 2)
      [] order = "RBG" -> Arr3(0, 2, 1)
      [] order = "GRB" -> Arr3(1, 0, 2)
      [] order = "BRG" -> Arr3(1, 2, 0)
      [] order = "GBR" -> Arr3(2, 0, 1)
      [] order = "BGR" -> Arr3(2, 1, 0)

\* c::Color: three u8 channels
Color(r, g, b) == [r |-> r, g |-> g, b |-> b]

\* c::Color::default()
DefaultColor == Color(0, 0, 0)

PhysicalStrip(pin, led_count, reversed, color_order) ==
    [pin |-> pin, led_count |-> led_count, reversed |-> reversed,
     color_order |-> color_order]

-----------------------------------------------------------------------------
(* main.rs: sizes derived from the strip table *)

RECURSIVE MaxLenFrom(_, _, _)
MaxLenFrom(ss, index, max_len) ==
    IF index < Len(ss)
    THEN MaxLenFrom(ss, index + 1,
                    IF ss[index + 1].led_count > max_len
                    THEN ss[index + 1].led_count ELSE max_len)
    ELSE max_len

get_single_strip_buffer_max_length(ss) == MaxLenFrom(ss, 0, 0) * 3

RECURSIVE TotalFrom(_, _, _)
TotalFrom(ss, index, total) ==
    IF index < Len(ss)
    THEN TotalFrom(ss, index + 1, total + ss[index + 1].led_count)
    ELSE total

get_total_num_leds(ss) == TotalFrom(ss, 0, 0)

MAX_SINGLE_STRIP_BYTE_BUFFER_LENGTH == get_single_strip_buffer_max_length(ALL_STRIPS)

NUM_LEDS == get_total_num_leds(ALL_STRIPS)

-----------------------------------------------------------------------------
(* leds.rs: encoding *)

Zeros(n) == [k \in 0..(n - 1) |-> 0]

\* byte_buffer[idx] = v, an index past the array being a panic
Store(acc, idx, v) ==
    IF acc.ok /\ idx \in DOMAIN acc.buf
    THEN [acc EXCEPT !.buf[idx] = v]
    ELSE [acc EXCEPT !.ok = FALSE]

\* the loop `for (i, color) in colors.enumerate()` from iteration i on
RECURSIVE EncodeFrom(_, _, _, _)
EncodeFrom(offs, colors, i, acc) ==
    IF i >= Len(colors)
    THEN acc
    ELSE LET base  == i * 3
             color == colors[i + 1]
             a1 == Store(acc, base + offs[0], color.r)
             a2 == Store(a1, base + offs[1], color.g)
             a3 == Store(a2, base + offs[2], color.b)
         IN  EncodeFrom(offs, colors, i + 1, a3)

\* PhysicalStrip::colors_to_bytes; `cap` is MAX_SINGLE_STRIP_BYTE_BUFFER_LENGTH
colors_to_bytes(strip, colors, cap) ==
    EncodeFrom(offsets(strip.color_order), colors, 0,
               [ok |-> TRUE, buf |-> Zeros(cap)])

\* &buf[from..to] as a sequence (the caller checks the range)
Slice(buf, from, to) == [k \in 1..(to - from) |-> buf[from + k - 1]]

\* current_strip_colors.iter()
Iter(s) == s

\* the iterator without rev()
IterNoRev(s) == s

\* current_strip_colors.iter().rev()
IterRev(s) == [k \in 1..Len(s) |-> s[Len(s) + 1 - k]]

\* 2^n for the bit positions 0..7 of a u8
Pow2(n) == <<1, 2, 4, 8, 16, 32, 64, 128>>[n + 1]

\* the Lsb0 order: bit j has weight 2^j
Lsb0Weight(j) == Pow2(j)

\* position of bit j of a byte in the Msb0 order: its weight is 2^(7 - j)
Msb0Weight(j) == Pow2(7 - j)

\* LogicalStrip::bytes_as_bit_slice: view_bits::<Msb0> of a byte sequence
bytes_as_bit_slice(bytes) ==
    [j \in 1..(8 * Len(bytes)) |->
        ((bytes[((j - 1) \div 8) + 1] \div Msb0Weight((j - 1) % 8)) % 2) = 1]

\* bit_slice of the strip being transmitted
bit_slice == bytes_as_bit_slice(Slice(byte_buffer, 0, byte_count))

-----------------------------------------------------------------------------
(* pins.rs: the control surface *)

\* main.rs: the four lines handed to PinControl; slot 2 is NoPin
PinTable == [k \in 0..3 |-> IF k = 2 THEN "NoPin" ELSE "gpio"]

\* NoPin::set_low / set_high return Ok(()) and do nothing
SetLevel(ps, pin, level) ==
    IF PinTable[pin] = "NoPin" THEN ps ELSE [ps EXCEPT ![pin] = level]

set_pin_low(ps, pin) == SetLevel(ps, pin, "low")

\* set_high on a line fixed in the code, whatever pin the strip names
SetPinHighLineZero(ps, pin) == SetLevel(ps, 0, "high")

set_pin_high(ps, pin) == SetLevel(ps, pin, "high")

\* PinControl::periodic_start
periodic_start(t, time) ==
    [t EXCEPT !.match2 = time,
              !.match2_int = TRUE,
              !.preload_value = 0,
              !.preload = "PreloadMatchComparator2",
              !.enabled = TRUE]

\* a quarter of the cycle taken as the period
TickPeriodQuarter == WS2812_ADAFRUIT.full_cycle \div 4

\* the period send_bits arms the timer with, in nanoseconds
TickPeriod == WS2812_ADAFRUIT.full_cycle \div 3

\* a wait whose loop is left without the match
WaitReadyAlways(t) == TRUE

\* PinControl::periodic_wait leaves its loop only when is_match2() holds
periodic_wait_ready(t) == t.is_match2

\* a wait that returns without clear_match2_interrupt
WaitNoClear(t) == t

\* ... and has then cleared the match
periodic_wait(t) == [t EXCEPT !.is_match2 = FALSE]

-----------------------------------------------------------------------------
(* Observation of a strip's transmit: the events before its first high     *)
(* pulse, run-length encoded, then the pulses decoded three ticks at a time *)

Ev(ev, arg) == [ev |-> ev, arg |-> arg]

NoWire == [pre |-> <<>>, bits |-> <<>>, cur |-> <<>>]

Waits(evs) == Cardinality({k \in DOMAIN evs : evs[k].ev = "wait"})

BitPeriodOver(evs) == Waits(evs) >= 3

Kinds(evs) == [k \in DOMAIN evs |-> evs[k].ev]

\* a WS28xx receiver's reading of one bit period: 1, 0, or 2 for a malformed one
Decode(evs, pin) ==
    IF \E k \in DOMAIN evs : evs[k].ev \in {"high", "low"} /\ evs[k].arg # pin
    THEN 2
    ELSE IF Kinds(evs) = <<"high", "wait", "wait", "low", "wait">> THEN 1
    ELSE IF Kinds(evs) = <<"high", "wait", "low", "wait", "wait">> THEN 0
    ELSE 2

RunLength(pre, e) ==
    IF pre # <<>> /\ pre[Len(pre)].ev = e.ev /\ pre[Len(pre)].arg = e.arg
    THEN [pre EXCEPT ![Len(pre)].n = @ + 1]
    ELSE Append(pre, [ev |-> e.ev, arg |-> e.arg, n |-> 1])

Observe(w, e, pin) ==
    LET cur == IF BitPeriodOver(w.cur) THEN <<>> ELSE w.cur
    IN  IF w.bits = <<>> /\ cur = <<>> /\ e.ev # "high"
        THEN [w EXCEPT !.pre = RunLength(w.pre, e)]
        ELSE LET new == Append(cur, e)
             IN  [w EXCEPT !.cur = new,
                           !.bits = IF BitPeriodOver(new)
                                    THEN Append(w.bits, Decode(new, pin))
                                    ELSE w.bits]

\* the strip table walked from its last entry
StripFromEnd == strips[Len(strips) - strip_idx]

\* the strip send_all_sequential is servicing
strip == strips[strip_idx + 1]

Logged(e) == [wire EXCEPT ![strip_idx + 1] = Observe(@, e, strip.pin)]

-----------------------------------------------------------------------------
(* Configurations and inputs explored *)

\* main.rs: the pin ids of the three wired lines
CLOSET_STRIP_PIN == 0
WINDOW_STRIP_PIN == 3
DOOR_STRIP_PIN == 1

\* strip tables: one strip forward, one strip reversed, three strips with an
\* empty one in the middle, three strips with an empty one at the end; between
\* them every ColorOrder, both directions and strips shorter than the longest
Configs ==
    { << PhysicalStrip(CLOSET_STRIP_PIN, 2, FALSE, "RGB") >>,
      << PhysicalStrip(DOOR_STRIP_PIN, 3, TRUE, "GRB") >>,
      << PhysicalStrip(WINDOW_STRIP_PIN, 1, FALSE, "RBG"),
         PhysicalStrip(DOOR_STRIP_PIN, 0, FALSE, "GRB"),
         PhysicalStrip(CLOSET_STRIP_PIN, 2, TRUE, "GBR") >>,
      << PhysicalStrip(CLOSET_STRIP_PIN, 1, FALSE, "BRG"),
         PhysicalStrip(WINDOW_STRIP_PIN, 1, TRUE, "BGR"),
         PhysicalStrip(DOOR_STRIP_PIN, 0, TRUE, "RGB") >> }

\* the strip table of the partition example: led counts 3, 4, 2 on the three
\* wired lines, laid out as main.rs lays out ALL_STRIPS
PartitionStrips ==
    << PhysicalStrip(CLOSET_STRIP_PIN, 3, FALSE, "GRB"),
       PhysicalStrip(WINDOW_STRIP_PIN, 4, FALSE, "GRB"),
       PhysicalStrip(DOOR_STRIP_PIN, 2, TRUE, "GRB") >>

\* main.rs: ALL_STRIPS, three strips of four LEDs
ShippedStrips ==
    << PhysicalStrip(CLOSET_STRIP_PIN, 4, FALSE, "GRB"),
       PhysicalStrip(WINDOW_STRIP_PIN, 4, FALSE, "GRB"),
       PhysicalStrip(DOOR_STRIP_PIN, 4, TRUE, "GRB") >>

\* a table whose first strip names the absent line, slot 2 of the pin table,
\* and is longer than the strip after it
AbsentLineStrips ==
    << PhysicalStrip(2, 2, FALSE, "RGB"),
       PhysicalStrip(CLOSET_STRIP_PIN, 1, TRUE, "BGR") >>

LinesConfigs == { ShippedStrips, AbsentLineStrips }

\* the table of the runs that are checked for termination
FairStrips ==
    << PhysicalStrip(WINDOW_STRIP_PIN, 1, FALSE, "GRB"),
       PhysicalStrip(DOOR_STRIP_PIN, 1, TRUE, "RGB") >>

\* what main writes in the runs over LinesConfigs
LinesColor == Color(1, 2, 3)

LinesIndices == {0}

LinesIndexColor == Color(4, 5, 6)

\* LogicalStrip::<NUM_LEDS>::new handed a table other than the one NUM_LEDS and
\* the scratch capacity were computed from: more LEDs than NUM_LEDS, fewer
\* LEDs than NUM_LEDS, and as many LEDs but a strip longer than the capacity
InconsistentTables ==
    { << << PhysicalStrip(CLOSET_STRIP_PIN, 3, FALSE, "GRB") >>,
         << PhysicalStrip(CLOSET_STRIP_PIN, 2, FALSE, "GRB"),
            PhysicalStrip(DOOR_STRIP_PIN, 2, TRUE, "GRB") >> >>,
      << << PhysicalStrip(CLOSET_STRIP_PIN, 3, FALSE, "GRB") >>,
         << PhysicalStrip(CLOSET_STRIP_PIN, 1, FALSE, "GRB"),
            PhysicalStrip(DOOR_STRIP_PIN, 1, TRUE, "GRB") >> >>,
      << << PhysicalStrip(CLOSET_STRIP_PIN, 1, FALSE, "GRB"),
            PhysicalStrip(WINDOW_STRIP_PIN, 1, FALSE, "GRB"),
            PhysicalStrip(DOOR_STRIP_PIN, 1, TRUE, "GRB") >>,
         << PhysicalStrip(CLOSET_STRIP_PIN, 3, FALSE, "GRB") >> >> }

\* the indices and the colour main writes in the partition example
PartitionIndices == {2, 5, 7}

PartitionColor == Color(10, 20, 30)

\* colours main writes
Palette == { Color(1, 2, 3), Color(4, 5, 6) }

\* indices main passes to set_color_at_index, the first past the end included
Indices == 0..(NUM_LEDS + MaxPastEnd - 1)

NoCall == [op |-> "none"]

\* no emission of an earlier call is on record
NoLast == <<>>

-----------------------------------------------------------------------------
(* State after construction (main.rs 141-151) *)

\* tables: pairs of the table the constants are computed from and the table
\* handed to LogicalStrip::new
InitTables(tables) ==
    /\ \E t \in tables : ALL_STRIPS = t[1] /\ strips = t[2]
    /\ last_wire = NoLast
    /\ color_buffer = [k \in 0..(NUM_LEDS - 1) |-> DefaultColor]
    /\ pc = "main"
    /\ call = NoCall
    /\ strip_idx = 0
    /\ start_index = 0
    /\ byte_buffer = <<>>
    /\ byte_count = 0
    /\ delay_i = 0
    /\ bit_idx = 0
    /\ arm_ip = 0
    /\ pins = [k \in 0..3 |-> "low"]
    /\ timer = [match2 |-> 0, match2_int |-> FALSE, preload_value |-> 0,
                preload |-> "NoPreload", enabled |-> FALSE, is_match2 |-> FALSE]
    /\ wire = [k \in 1..Len(strips) |-> NoWire]

\* main.rs: LogicalStrip::<NUM_LEDS>::new(&ALL_STRIPS)
InitWith(configs) == InitTables({<<c, c>> : c \in configs})

Init == InitWith(Configs)

InitPartition == InitWith({PartitionStrips})

InitLines == InitWith(LinesConfigs)

InitInconsistent == InitTables(InconsistentTables)

InitFair == InitWith({FairStrips})

-----------------------------------------------------------------------------
(* main: the calls it makes on the LogicalStrip *)

MainSetColorAtIndex(index, color) ==
    /\ pc = "main"
    /\ pc' = "set_color_at_index"
    /\ call' = [op |-> "set_color_at_index", index |-> index, color |-> color]
    /\ UNCHANGED <<ALL_STRIPS, last_wire, strips, color_buffer, strip_idx, start_index,
                   byte_buffer, byte_count, delay_i, bit_idx, arm_ip, pins,
                   timer, wire>>

MainSetStripToSolidColor(color) ==
    /\ pc = "main"
    /\ pc' = "set_strip_to_solid_color"
    /\ call' = [op |-> "set_strip_to_solid_color", color |-> color]
    /\ UNCHANGED <<ALL_STRIPS, last_wire, strips, color_buffer, strip_idx, start_index,
                   byte_buffer, byte_count, delay_i, bit_idx, arm_ip, pins,
                   timer, wire>>

\* start_index carried over from the call before
StartIndexKept == start_index

\* let mut start_index = 0
StartIndexAtEntry == 0

\* send_all_sequential entered: `let mut start_index = 0`, the loop at its head
MainSendAllSequential ==
    /\ pc = "main"
    /\ pc' = "send_all_sequential"
    /\ call' = [op |-> "send_all_sequential"]
    /\ start_index' = StartIndexAtEntry
    /\ strip_idx' = 0
    /\ wire' = [k \in 1..Len(strips) |-> NoWire]
    /\ UNCHANGED <<ALL_STRIPS, last_wire, strips, color_buffer, byte_buffer, byte_count, delay_i,
                   bit_idx, arm_ip, pins, timer>>

-----------------------------------------------------------------------------
(* LogicalStrip: buffer writes *)

\* a bounds check that lets the index equal to the length through
InBoundsInclusive(index, len) == index <= len

\* the bounds check of indexing an array of length len
InBounds(index, len) == index < len

\* a store that runs on from index to the end of the array
StoreColorOnward(buf, index, color) ==
    [k \in DOMAIN buf |-> IF k >= index THEN color ELSE buf[k]]

\* buf[index] = color
StoreColor(buf, index, color) == [buf EXCEPT ![index] = color]

\* self.color_buffer[index] = color; an index past the array panics, and the
\* panic handler (panic_halt) halts
SetColorAtIndex ==
    /\ pc = "set_color_at_index"
    /\ IF InBounds(call.index, NUM_LEDS)
       THEN /\ color_buffer' = StoreColor(color_buffer, call.index, call.color)
            /\ pc' = "main"
       ELSE /\ color_buffer' = color_buffer
            /\ pc' = "halt"
    /\ call' = NoCall
    /\ last_wire' = NoLast
    /\ UNCHANGED <<ALL_STRIPS, strips, strip_idx, start_index, byte_buffer,
                   byte_count, delay_i, bit_idx, arm_ip, pins, timer, wire>>

\* an array whose first entry is left at the default
FilledButFirst(color, n) ==
    [k \in 0..(n - 1) |-> IF k = 0 THEN DefaultColor ELSE color]

\* the array expression [color; n]
Filled(color, n) == [k \in 0..(n - 1) |-> color]

\* self.color_buffer = [color; NUM_LEDS]
SetStripToSolidColor ==
    /\ pc = "set_strip_to_solid_color"
    /\ color_buffer' = Filled(call.color, NUM_LEDS)
    /\ pc' = "main"
    /\ call' = NoCall
    /\ last_wire' = NoLast
    /\ UNCHANGED <<ALL_STRIPS, strips, strip_idx, start_index, byte_buffer,
                   byte_count, delay_i, bit_idx, arm_ip, pins, timer, wire>>

-----------------------------------------------------------------------------
(* LogicalStrip::send_all_sequential *)

\* the end of the slice taken without the running offset
EndIndexNoOffset == strip.led_count

end_index == start_index + strip.led_count

\* the whole scratch buffer taken as the strip's bytes
ByteCountCapacity(s) == MAX_SINGLE_STRIP_BYTE_BUFFER_LENGTH

\* let byte_count = strip.led_count * 3
ByteCount(s) == s.led_count * 3

\* one pass of `for strip in self.strips` up to the call of send_bits:
\* slice, byte_count, colors_to_bytes, the bit view of the first byte_count bytes
SendAllNextStrip ==
    /\ pc = "send_all_sequential"
    /\ strip_idx < Len(strips)
    /\ IF end_index > NUM_LEDS
       THEN \* &self.color_buffer[start_index..end_index] out of range
            /\ pc' = "halt"
            /\ UNCHANGED <<byte_buffer, byte_count>>
       ELSE LET current_strip_colors == Slice(color_buffer, start_index, end_index)
                count   == ByteCount(strip)
                encoded == IF strip.reversed
                           THEN colors_to_bytes(strip, IterRev(current_strip_colors),
                                                MAX_SINGLE_STRIP_BYTE_BUFFER_LENGTH)
                           ELSE colors_to_bytes(strip, Iter(current_strip_colors),
                                                MAX_SINGLE_STRIP_BYTE_BUFFER_LENGTH)
            IN  IF encoded.ok /\ count <= MAX_SINGLE_STRIP_BYTE_BUFFER_LENGTH
                THEN /\ byte_buffer' = encoded.buf
                     /\ byte_count' = count
                     /\ pc' = "periodic_start"
                ELSE /\ pc' = "halt"
                     /\ UNCHANGED <<byte_buffer, byte_count>>
    /\ UNCHANGED <<ALL_STRIPS, last_wire, strips, color_buffer, call, strip_idx, start_index,
                   delay_i, bit_idx, arm_ip, pins, timer, wire>>

\* the loop is exhausted: send_all_sequential returns to main; `last` is what
\* the observer has on record from then on
SendAllReturnTo(last) ==
    /\ pc = "send_all_sequential"
    /\ strip_idx >= Len(strips)
    /\ pc' = "main"
    /\ call' = NoCall
    /\ last_wire' = last
    /\ UNCHANGED <<ALL_STRIPS, strips, color_buffer, strip_idx, start_index,
                   byte_buffer, byte_count, delay_i, bit_idx, arm_ip, pins,
                   timer, wire>>

SendAllReturn == SendAllReturnTo(last_wire)

\* the same return, with the emission of the call put on record
SendAllReturnObserved == SendAllReturnTo(wire)

-----------------------------------------------------------------------------
(* PhysicalStrip::send_bits *)

\* where control is once i loops of `for _ in 0..WS2811_DELAY_LOOPS_BEFORE_SEND`
\* are done
\* the delay loop written with an inclusive range
AfterDelayInclusive(i) == IF i <= WS2811_DELAY_LOOPS_BEFORE_SEND THEN "delay" ELSE "bits"

AfterDelay(i) == IF i < WS2811_DELAY_LOOPS_BEFORE_SEND THEN "delay" ELSE "bits"

\* the arm of a 1-bit with the line left high for the whole cycle
ArmTrueHeld == <<"high", "wait", "wait", "wait", "low">>

\* the statements of the two match arms
ArmTrue == <<"high", "wait", "wait", "low", "wait">>

\* the arm of a 0-bit written as a copy of the arm of a 1-bit
ArmFalseAsTrue == <<"high", "wait", "wait", "low", "wait">>

ArmFalse == <<"high", "wait", "low", "wait", "wait">>

Arm(bit) == IF bit THEN ArmTrue ELSE ArmFalse

\* the statement send_bits is at inside `for bit in bit_buffer`
Stmt == IF pc = "bits" /\ bit_idx < Len(bit_slice)
        THEN Arm(bit_slice[bit_idx + 1])[arm_ip + 1]
        ELSE "none"

\* a statement of the arm is done: on to the next one, or to the next bit
StepArm ==
    IF arm_ip + 1 < Len(Arm(bit_slice[bit_idx + 1]))
    THEN /\ arm_ip' = arm_ip + 1
         /\ bit_idx' = bit_idx
    ELSE /\ arm_ip' = 0
         /\ bit_idx' = bit_idx + 1

SendBitsPeriodicStart ==
    /\ pc = "periodic_start"
    /\ timer' = periodic_start(timer, TickPeriod)
    /\ wire' = Logged(Ev("arm", TickPeriod))
    /\ pc' = "set_pin_low"
    /\ UNCHANGED <<ALL_STRIPS, last_wire, strips, color_buffer, call, strip_idx, start_index,
                   byte_buffer, byte_count, delay_i, bit_idx, arm_ip, pins>>

SendBitsResetLow ==
    /\ pc = "set_pin_low"
    /\ IF strip.pin \in DOMAIN pins
       THEN /\ pins' = set_pin_low(pins, strip.pin)
            /\ wire' = Logged(Ev("low", strip.pin))
            /\ pc' = AfterDelay(0)
       ELSE /\ pc' = "halt"
            /\ UNCHANGED <<pins, wire>>
    /\ delay_i' = 0
    /\ bit_idx' = 0
    /\ arm_ip' = 0
    /\ UNCHANGED <<ALL_STRIPS, last_wire, strips, color_buffer, call, strip_idx, start_index,
                   byte_buffer, byte_count, timer>>

SendBitsDelayWait ==
    /\ pc = "delay"
    /\ periodic_wait_ready(timer)
    /\ timer' = periodic_wait(timer)
    /\ wire' = Logged(Ev("wait", 0))
    /\ delay_i' = delay_i + 1
    /\ pc' = AfterDelay(delay_i + 1)
    /\ UNCHANGED <<ALL_STRIPS, last_wire, strips, color_buffer, call, strip_idx, start_index,
                   byte_buffer, byte_count, bit_idx, arm_ip, pins>>

SendBitsSetPinHigh ==
    /\ Stmt = "high"
    /\ pins' = set_pin_high(pins, strip.pin)
    /\ wire' = Logged(Ev("high", strip.pin))
    /\ StepArm
    /\ UNCHANGED <<ALL_STRIPS, last_wire, strips, color_buffer, pc, call, strip_idx,
                   start_index, byte_buffer, byte_count, delay_i, timer>>

SendBitsSetPinLow ==
    /\ Stmt = "low"
    /\ pins' = set_pin_low(pins, strip.pin)
    /\ wire' = Logged(Ev("low", strip.pin))
    /\ StepArm
    /\ UNCHANGED <<ALL_STRIPS, last_wire, strips, color_buffer, pc, call, strip_idx,
                   start_index, byte_buffer, byte_count, delay_i, timer>>

SendBitsWait ==
    /\ Stmt = "wait"
    /\ periodic_wait_ready(timer)
    /\ timer' = periodic_wait(timer)
    /\ wire' = Logged(Ev("wait", 0))
    /\ StepArm
    /\ UNCHANGED <<ALL_STRIPS, last_wire, strips, color_buffer, pc, call, strip_idx,
                   start_index, byte_buffer, byte_count, delay_i, pins>>

\* bit_buffer is exhausted: send_bits returns and send_all_sequential does
\* `start_index = end_index` and goes to the next strip
SendBitsReturn ==
    /\ pc = "bits"
    /\ bit_idx >= Len(bit_slice)
    /\ start_index' = end_index
    /\ strip_idx' = strip_idx + 1
    /\ pc' = "send_all_sequential"
    /\ UNCHANGED <<ALL_STRIPS, last_wire, strips, color_buffer, call, byte_buffer, byte_count,
                   delay_i, bit_idx, arm_ip, pins, timer, wire>>

-----------------------------------------------------------------------------
(* The hardware timer: once enabled, its counter reaches match2 and raises  *)
(* the match flag; the preload then restarts it from preload_value          *)

TimerMatch ==
    /\ timer.enabled
    /\ ~timer.is_match2
    /\ timer' = [timer EXCEPT !.is_match2 = TRUE]
    /\ UNCHANGED <<ALL_STRIPS, last_wire, strips, color_buffer, pc, call, strip_idx,
                   start_index, byte_buffer, byte_count, delay_i, bit_idx,
                   arm_ip, pins, wire>>

-----------------------------------------------------------------------------

Next ==
    \/ \E index \in Indices, color \in Palette : MainSetColorAtIndex(index, color)
    \/ \E color \in Palette : MainSetStripToSolidColor(color)
    \/ MainSendAllSequential
    \/ SetColorAtIndex
    \/ SetStripToSolidColor
    \/ SendAllNextStrip
    \/ SendAllReturn
    \/ SendBitsPeriodicStart
    \/ SendBitsResetLow
    \/ SendBitsDelayWait
    \/ SendBitsSetPinHigh
    \/ SendBitsSetPinLow
    \/ SendBitsWait
    \/ SendBitsReturn
    \/ TimerMatch

Spec == Init /\ [][Next]_vars

\* the partition example: main writes PartitionColor at PartitionIndices
NextPartition ==
    \/ \E index \in PartitionIndices : MainSetColorAtIndex(index, PartitionColor)
    \/ MainSendAllSequential
    \/ SetColorAtIndex
    \/ SendAllNextStrip
    \/ SendAllReturn
    \/ SendBitsPeriodicStart
    \/ SendBitsResetLow
    \/ SendBitsDelayWait
    \/ SendBitsSetPinHigh
    \/ SendBitsSetPinLow
    \/ SendBitsWait
    \/ SendBitsReturn
    \/ TimerMatch

SpecPartition == InitPartition /\ [][NextPartition]_vars

\* a LogicalStrip built over a table that does not fit its NUM_LEDS or the
\* scratch capacity: main fills the buffer and transmits
NextInconsistent ==
    \/ MainSetStripToSolidColor(LinesColor)
    \/ MainSendAllSequential
    \/ SetStripToSolidColor
    \/ SendAllNextStrip
    \/ SendAllReturn
    \/ SendBitsPeriodicStart
    \/ SendBitsResetLow
    \/ SendBitsDelayWait
    \/ SendBitsSetPinHigh
    \/ SendBitsSetPinLow
    \/ SendBitsWait
    \/ SendBitsReturn
    \/ TimerMatch

SpecInconsistent == InitInconsistent /\ [][NextInconsistent]_vars

\* the steps send_all_sequential itself takes, send_bits included
SendStep ==
    \/ SendAllNextStrip
    \/ SendAllReturnObserved
    \/ SendBitsPeriodicStart
    \/ SendBitsResetLow
    \/ SendBitsDelayWait
    \/ SendBitsSetPinHigh
    \/ SendBitsSetPinLow
    \/ SendBitsWait
    \/ SendBitsReturn

\* the shipped table and a table with the absent line: main fills the buffer,
\* writes one entry and transmits, in any order
NextLines ==
    \/ MainSetStripToSolidColor(LinesColor)
    \/ \E index \in LinesIndices : MainSetColorAtIndex(index, LinesIndexColor)
    \/ MainSendAllSequential
    \/ SetStripToSolidColor
    \/ SetColorAtIndex
    \/ SendStep
    \/ TimerMatch

SpecLines == InitLines /\ [][NextLines]_vars

\* main fills the buffer and transmits
NextFair ==
    \/ MainSetStripToSolidColor(LinesColor)
    \/ MainSendAllSequential
    \/ SetStripToSolidColor
    \/ SendStep
    \/ TimerMatch

\* the processor keeps executing the call it is in; the timer is left free
SpecFair == InitFair /\ [][NextFair]_vars /\ WF_vars(SendStep)

-----------------------------------------------------------------------------
(* Vocabulary of the properties, stated apart from the operators above *)

\* control is inside send_bits
InSendBits == pc \in {"periodic_start", "set_pin_low", "delay", "bits"}

\* the transmit of strip m (1-based) of the latest call has returned
TransmitDone(m) ==
    IF pc = "send_all_sequential" \/ InSendBits
    THEN strip_idx >= m
    ELSE wire[Len(strips)].pre # <<>>

\* send_all_sequential is running and is transmitting strip m
Transmitting(m) == InSendBits /\ strip_idx + 1 = m

RECURSIVE SumLeds(_, _)
SumLeds(ss, m) == IF m = 0 THEN 0 ELSE SumLeds(ss, m - 1) + ss[m].led_count

\* first buffer index of strip m, and the total LED count
FirstIndex(m) == SumLeds(strips, m - 1)

TotalLeds == SumLeds(strips, Len(strips))

\* the LEDs of the buffer that strip m sends, by position (from 0) in its stream
LedsSent(m) ==
    LET first == FirstIndex(m)
        n     == strips[m].led_count
    IN  [i \in 0..(n - 1) |->
            IF strips[m].reversed
            THEN color_buffer[first + n - 1 - i]
            ELSE color_buffer[first + i]]

LedSent(m, i) == LedsSent(m)[i]

\* the channels in the order a ColorOrder's name spells them
Spelling(order) ==
    CASE order = "RGB" -> <<"r", "g", "b">>
      [] order = "RBG" -> <<"r", "b", "g">>
      [] order = "GRB" -> <<"g", "r", "b">>
      [] order = "GBR" -> <<"g", "b", "r">>
      [] order = "BRG" -> <<"b", "r", "g">>
      [] order = "BGR" -> <<"b", "g", "r">>

\* the bytes strip m is to send, as a sequence
BytesToSend(m) ==
    LET leds  == LedsSent(m)
        spell == Spelling(strips[m].color_order)
    IN  [g \in 1..(3 * strips[m].led_count) |->
            leds[(g - 1) \div 3][spell[((g - 1) % 3) + 1]]]

\* byte q (from 0) of the stream strip m is to send
WireByte(m, q) == BytesToSend(m)[q + 1]

\* the value the eight bits from position p (1-based) of bits spell, first bit
\* most significant
ByteOfBits(bits, p) ==
    128 * bits[p] + 64 * bits[p + 1] + 32 * bits[p + 2] + 16 * bits[p + 3]
    + 8 * bits[p + 4] + 4 * bits[p + 5] + 2 * bits[p + 6] + bits[p + 7]

\* the whole bytes a line has received
BytesOnWire(m) ==
    [g \in 1..(Len(wire[m].bits) \div 8) |-> ByteOfBits(wire[m].bits, 8 * (g - 1) + 1)]

IsPrefix(s, t) == Len(s) <= Len(t) /\ \A k \in 1..Len(s) : s[k] = t[k]

Repeat(e, n) == [k \in 1..n |-> e]

Bit01(b) == IF b THEN 1 ELSE 0

-----------------------------------------------------------------------------
(* C1: every bit send_bits sends is emitted as: line high, N_high          *)
(* tick-waits, line low, N_low tick-waits, with (N_high, N_low) = (2, 1)    *)
(* for a 1-bit and (1, 2) for a 0-bit, so 3 tick-waits per bit: the events  *)
(* of the bit in progress are a prefix of that sequence for the bit of      *)
(* bit_buffer being sent, the events of a finished bit are all of it, and   *)
(* each bit received so far reads as the bit of bit_buffer at its position. *)

HighTicks(b) == IF b THEN 2 ELSE 1

LowTicks(b) == IF b THEN 1 ELSE 2

BitEvents(b, pin) ==
    <<Ev("high", pin)>> \o Repeat(Ev("wait", 0), HighTicks(b))
    \o <<Ev("low", pin)>> \o Repeat(Ev("wait", 0), LowTicks(b))

C1_BitTiming ==
    pc = "bits" =>
        LET w  == wire[strip_idx + 1]
            n  == Len(w.bits)
            bs == bit_slice
        IN  /\ n <= Len(bs)
            /\ \A j \in 1..n : w.bits[j] = Bit01(bs[j])
            /\ IF BitPeriodOver(w.cur)
               THEN /\ w.cur = BitEvents(bs[n], strip.pin)
                    /\ Waits(w.cur) = 3
                    /\ bit_idx = n
               ELSE /\ bit_idx = n
                    /\ w.cur # <<>> => /\ n < Len(bs)
                                       /\ IsPrefix(w.cur, BitEvents(bs[n + 1], strip.pin))
                    /\ Len(w.cur) = arm_ip

\* a 1-bit has just been completed on a line that has carried 0-bits and 1-bits
C1_Witness ==
    /\ pc = "bits"
    /\ BitPeriodOver(wire[strip_idx + 1].cur)
    /\ bit_idx >= 1
    /\ bit_slice[bit_idx]
    /\ \E j \in 1..Len(wire[strip_idx + 1].bits) : wire[strip_idx + 1].bits[j] = 0
    /\ \E j \in 1..Len(wire[strip_idx + 1].bits) : wire[strip_idx + 1].bits[j] = 1

-----------------------------------------------------------------------------
(* C2: every send_bits starts with the same preamble, in this order: the    *)
(* timer is re-armed once with period full_cycle / 3, the strip's line is   *)
(* set low once, then 900 tick-waits elapse; nothing else happens before    *)
(* the line first goes high, the line is not set high before the 900th     *)
(* wait, and every strip of a call gets its own re-arm.                     *)

Preamble(m) ==
    << [ev |-> "arm", arg |-> 1250 \div 3, n |-> 1],
       [ev |-> "low", arg |-> strips[m].pin, n |-> 1],
       [ev |-> "wait", arg |-> 0, n |-> 900] >>

\* the preamble as far as it has got: whole entries, then a run of waits
PreambleSoFar(pre, m) ==
    \/ pre = <<>>
    \/ pre = SubSeq(Preamble(m), 1, 1)
    \/ pre = SubSeq(Preamble(m), 1, 2)
    \/ /\ Len(pre) = 3
       /\ SubSeq(pre, 1, 2) = SubSeq(Preamble(m), 1, 2)
       /\ pre[3].ev = "wait"
       /\ pre[3].n \in 1..900

C2_Preamble ==
    \A m \in 1..Len(strips) :
        /\ PreambleSoFar(wire[m].pre, m)
        /\ (wire[m].cur # <<>> \/ wire[m].bits # <<>>) => wire[m].pre = Preamble(m)
        /\ (Transmitting(m) /\ pc = "bits") => wire[m].pre = Preamble(m)
        /\ (Transmitting(m) /\ pc \in {"set_pin_low", "delay"}) =>
               /\ wire[m].pre # <<>>
               /\ wire[m].pre[Len(wire[m].pre)].ev = "wait" =>
                      wire[m].pre[Len(wire[m].pre)].n = delay_i
               /\ timer.enabled /\ timer.match2 = 1250 \div 3
        /\ (TransmitDone(m) \/ (Transmitting(m) /\ pc # "periodic_start")) =>
               /\ wire[m].pre # <<>>
               /\ wire[m].pre[1] = [ev |-> "arm", arg |-> 1250 \div 3, n |-> 1]

\* the second strip of a call has had its own preamble and is sending its first bit
C2_Witness ==
    /\ Transmitting(2)
    /\ pc = "bits"
    /\ wire[2].cur = <<Ev("high", strips[2].pin)>>
    /\ wire[2].bits = <<>>
    /\ wire[1].pre = Preamble(1)
    /\ wire[2].pre = Preamble(2)

-----------------------------------------------------------------------------
(* C3: within one send_all_sequential call strips are transmitted in        *)
(* configured order and bits in sequence: while strip k is transmitted,     *)
(* every strip before k has its whole preamble and all 24 * led_count bits  *)
(* of its stream, every strip after k has had no event and no pin event     *)
(* names its line, and what strip k has received is a prefix of its stream. *)

\* bits is a prefix of the stream strip m is to send: its bytes one after the
\* other, each from its most significant bit down
PrefixOfStream(bits, m) ==
    LET bytes == BytesToSend(m)
    IN  /\ Len(bits) <= 24 * strips[m].led_count
        /\ \A j \in 1..Len(bits) :
               bits[j] = (bytes[((j - 1) \div 8) + 1] \div Pow2(7 - ((j - 1) % 8))) % 2

\* bits is the whole of that stream
WholeStream(bits, m) ==
    /\ Len(bits) = 24 * strips[m].led_count
    /\ \A j \in 1..Len(bits) : bits[j] \in {0, 1}
    /\ BytesOnWire(m) = BytesToSend(m)

\* the pins named by the pin events strip m's transmit has made
PinsDriven(m) ==
    {wire[m].pre[k].arg : k \in {i \in DOMAIN wire[m].pre : wire[m].pre[i].ev = "low"}}
    \cup {wire[m].cur[k].arg : k \in {i \in DOMAIN wire[m].cur : wire[m].cur[i].ev # "wait"}}

C3_SequentialOrder ==
    \A k \in 1..Len(strips) :
        Transmitting(k) =>
            /\ \A m \in 1..(k - 1) :
                   /\ wire[m].pre = Preamble(m)
                   /\ WholeStream(wire[m].bits, m)
                   /\ wire[m].cur = <<>> \/ BitPeriodOver(wire[m].cur)
            /\ \A m \in (k + 1)..Len(strips) :
                   /\ wire[m] = NoWire
                   /\ \A j \in 1..k : strips[m].pin \notin PinsDriven(j)
            /\ PrefixOfStream(wire[k].bits, k)
            /\ PinsDriven(k) \subseteq {strips[k].pin}

\* the second of three strips is part-way through its bits
C3_Witness ==
    /\ Len(strips) = 3
    /\ Transmitting(2)
    /\ Len(wire[2].bits) = 12
    /\ wire[2].bits # Repeat(0, 12)
    /\ wire[1].bits # Repeat(0, 24)
    /\ Len(wire[1].bits) = 24

-----------------------------------------------------------------------------
(* C4: colors_to_bytes puts the colour at position i of its input at bytes  *)
(* 3i + offsets[0] (red), 3i + offsets[1] (green), 3i + offsets[2] (blue),  *)
(* so the three bytes of an LED are in the channel order the ColorOrder's   *)
(* name spells; for (r, g, b) = (10, 20, 30): GRB gives [20, 10, 30], RGB   *)
(* [10, 20, 30], and likewise RBG, GBR, BRG, BGR.                           *)

\* the scratch buffer colors_to_bytes returns for one LED of colour c (the
\* worked examples are evaluated where a strip has just been encoded)
OneLed(order, c) == colors_to_bytes(PhysicalStrip(0, 1, FALSE, order), <<c>>, 3).buf

C4_ChannelPlacement ==
    /\ InSendBits =>
           LET leds == LedsSent(strip_idx + 1)
               o    == offsets(strip.color_order)
           IN
           \A i \in 0..(strip.led_count - 1) :
               LET c == leds[i]
               IN  /\ byte_buffer[3 * i + o[0]] = c.r
                   /\ byte_buffer[3 * i + o[1]] = c.g
                   /\ byte_buffer[3 * i + o[2]] = c.b
                   /\ \A pos \in 0..2 :
                          byte_buffer[3 * i + pos] = c[Spelling(strip.color_order)[pos + 1]]
    /\ pc = "periodic_start" =>
           /\ OneLed("GRB", Color(10, 20, 30)) = Arr3(20, 10, 30)
           /\ OneLed("RGB", Color(10, 20, 30)) = Arr3(10, 20, 30)
           /\ OneLed("RBG", Color(10, 20, 30)) = Arr3(10, 30, 20)
           /\ OneLed("GBR", Color(10, 20, 30)) = Arr3(20, 30, 10)
           /\ OneLed("BRG", Color(10, 20, 30)) = Arr3(30, 10, 20)
           /\ OneLed("BGR", Color(10, 20, 30)) = Arr3(30, 20, 10)

\* a GBR strip has encoded (1, 2, 3) as 2, 3, 1
C4_Witness ==
    /\ InSendBits
    /\ strip.color_order = "GBR"
    /\ LedSent(strip_idx + 1, 0) = Color(1, 2, 3)
    /\ byte_buffer[0] = 2 /\ byte_buffer[1] = 3 /\ byte_buffer[2] = 1

-----------------------------------------------------------------------------
(* C5: the bits a strip is sent are its encoded bytes in byte order, each   *)
(* byte most significant bit first: bit j of the stream is bit              *)
(* (7 - j mod 8) of byte (j div 8).  One RGB strip of 2 LEDs, not reversed, *)
(* holding [(1,2,3), (4,5,6)] is sent the bytes 1,2,3,4,5,6 as 48 bits, the *)
(* first eight being 0,0,0,0,0,0,0,1.                                       *)

\* send_all_sequential is running and has finished strip m
SentInCall(m) == (pc = "send_all_sequential" \/ InSendBits) /\ strip_idx >= m

BitOfByte(byte, p) == (byte \div Pow2(p)) % 2

C5_MsbFirst ==
    /\ InSendBits =>
           LET bits   == wire[strip_idx + 1].bits
               onwire == BytesOnWire(strip_idx + 1)
           IN  /\ \A j \in 0..(Len(bits) - 1) :
                      bits[j + 1] = BitOfByte(byte_buffer[j \div 8], 7 - (j % 8))
               /\ \A g \in 1..(Len(bits) \div 8) : onwire[g] = byte_buffer[g - 1]
    /\ \A m \in 1..Len(strips) : SentInCall(m) => BytesOnWire(m) = BytesToSend(m)
    /\ ( /\ strips = << PhysicalStrip(CLOSET_STRIP_PIN, 2, FALSE, "RGB") >>
         /\ color_buffer[0] = Color(1, 2, 3)
         /\ color_buffer[1] = Color(4, 5, 6)
         /\ SentInCall(1) )
       => /\ BytesOnWire(1) = <<1, 2, 3, 4, 5, 6>>
          /\ Len(wire[1].bits) = 48
          /\ SubSeq(wire[1].bits, 1, 8) = <<0, 0, 0, 0, 0, 0, 0, 1>>

\* the end-to-end scenario has been transmitted
C5_Witness ==
    /\ strips = << PhysicalStrip(CLOSET_STRIP_PIN, 2, FALSE, "RGB") >>
    /\ color_buffer[0] = Color(1, 2, 3)
    /\ color_buffer[1] = Color(4, 5, 6)
    /\ SentInCall(1)
    /\ Len(wire[1].bits) = 48

-----------------------------------------------------------------------------
(* C6: a transmit of a strip with led_count = n uses exactly the first 3n   *)
(* bytes of the scratch buffer and sends exactly 24n bits, whatever the     *)
(* capacity of the scratch buffer (3 x the largest led_count); for n = 0 no *)
(* bit is sent.                                                             *)

\* the largest led_count of the strip table
LargestCount == CHOOSE n \in {strips[m].led_count : m \in 1..Len(strips)} :
                    \A m \in 1..Len(strips) : strips[m].led_count <= n

C6_ExactLength ==
    /\ InSendBits =>
           /\ byte_count = 3 * strip.led_count
           /\ pc = "bits" => bit_idx <= 24 * strip.led_count
           /\ Len(wire[strip_idx + 1].bits) <= 24 * strip.led_count
           /\ Cardinality(DOMAIN byte_buffer) = 3 * LargestCount
           /\ pc = "periodic_start" => Len(bit_slice) = 24 * strip.led_count
           /\ (pc = "bits" /\ bit_idx >= Len(bit_slice)) =>
                  /\ Len(wire[strip_idx + 1].bits) = 24 * strip.led_count
                  /\ BytesOnWire(strip_idx + 1) = Slice(byte_buffer, 0, 3 * strip.led_count)
    /\ \A m \in 1..Len(strips) :
           TransmitDone(m) =>
               /\ Len(wire[m].bits) = 24 * strips[m].led_count
               /\ wire[m].cur = <<>> \/ BitPeriodOver(wire[m].cur)
               /\ strips[m].led_count = 0 => wire[m].bits = <<>> /\ wire[m].cur = <<>>

\* strips of 1, 0 and 2 LEDs sharing a 6-byte scratch buffer have been sent
\* 24, 0 and 48 bits
C6_Witness ==
    /\ Len(strips) = 3
    /\ TransmitDone(3)
    /\ strips[1].led_count = 1 /\ strips[2].led_count = 0 /\ strips[3].led_count = 2
    /\ Len(wire[1].bits) = 24
    /\ wire[2].pre = Preamble(2) /\ wire[2].bits = <<>> /\ wire[2].cur = <<>>
    /\ Len(wire[3].bits) = 48

-----------------------------------------------------------------------------
(* C7: a strip with reversed = true over a slice is sent the same bytes and *)
(* bits as an otherwise identical strip with reversed = false over the      *)
(* slice in reverse order; the LED order is reversed, the channel order     *)
(* inside each LED's three bytes is not.                                    *)

RECURSIVE Backwards(_)
Backwards(s) == IF s = <<>> THEN <<>> ELSE Append(Backwards(Tail(s)), Head(s))

\* the slice of the buffer that belongs to strip m, in buffer order
SliceOf(m) == [k \in 1..strips[m].led_count |-> color_buffer[FirstIndex(m) + k - 1]]

\* what send_all_sequential encodes and views as bits for a strip that is not
\* reversed, over colors
ForwardStream(st, colors) ==
    LET encoded == colors_to_bytes(st, Iter(colors), 3 * Len(colors)).buf
        bits    == bytes_as_bit_slice(Slice(encoded, 0, ByteCount(st)))
    IN  [j \in DOMAIN bits |-> Bit01(bits[j])]

C7_Reversal ==
    \A m \in 1..Len(strips) :
        (strips[m].reversed /\ SentInCall(m)) =>
            /\ wire[m].bits =
                   ForwardStream([strips[m] EXCEPT !.reversed = FALSE], Backwards(SliceOf(m)))
            /\ \A i \in 0..(strips[m].led_count - 1) : \A pos \in 0..2 :
                   BytesOnWire(m)[3 * i + pos + 1] =
                       color_buffer[FirstIndex(m) + strips[m].led_count - 1 - i]
                                   [Spelling(strips[m].color_order)[pos + 1]]

\* the reversed strip of 3 LEDs has been sent a slice [A, B, C] of three
\* different colours
C7_Witness ==
    /\ Len(strips) = 1
    /\ strips[1].reversed /\ strips[1].led_count = 3
    /\ SentInCall(1)
    /\ color_buffer[0] = Color(1, 2, 3)
    /\ color_buffer[1] = Color(4, 5, 6)
    /\ color_buffer[2] = DefaultColor
    /\ Len(wire[1].bits) = 72

-----------------------------------------------------------------------------
(* C8: send_all_sequential encodes strip i from exactly the buffer indices  *)
(* [sum of the led_count of the strips before i, that sum + led_count_i);   *)
(* the slices are contiguous, disjoint and cover [0, total).  For led       *)
(* counts [3, 4, 2] the slices are [0,3), [3,7), [7,9), and index 5 is      *)
(* LED 2 (counting from 0) of the second strip, sent on the second strip's  *)
(* line only.                                                               *)

AllZero(bytes) == \A g \in DOMAIN bytes : bytes[g] = 0

OnlyIndex5 ==
    /\ color_buffer[5] # DefaultColor
    /\ \A k \in DOMAIN color_buffer : k # 5 => color_buffer[k] = DefaultColor

\* the running offset and the slice encoded for each strip
SlicesPartition ==
    /\ (pc = "send_all_sequential" \/ InSendBits) =>
           /\ start_index = SumLeds(strips, strip_idx)
           /\ strip_idx = Len(strips) =>
                  /\ start_index = TotalLeds
                  /\ start_index = Cardinality(DOMAIN color_buffer)
    /\ InSendBits =>
           /\ end_index = SumLeds(strips, strip_idx) + strip.led_count
           /\ end_index <= Cardinality(DOMAIN color_buffer)
           /\ LET bytes == BytesToSend(strip_idx + 1)
              IN  \A q \in 0..(3 * strip.led_count - 1) : byte_buffer[q] = bytes[q + 1]

\* with led counts [3, 4, 2] transmitted, index 5 is what the second strip's
\* line carried for its LED `local` (from 0), and nothing else carried it
IndexFiveIsLocal(local) ==
    ( /\ Len(strips) = 3
      /\ strips[1].led_count = 3 /\ strips[2].led_count = 4 /\ strips[3].led_count = 2
      /\ SentInCall(3) )
    => /\ FirstIndex(1) = 0 /\ FirstIndex(2) = 3 /\ FirstIndex(3) = 7
       /\ TotalLeds = 9
       /\ \A pos \in 0..2 :
              BytesOnWire(2)[3 * local + pos + 1] =
                  color_buffer[5][Spelling(strips[2].color_order)[pos + 1]]
       /\ OnlyIndex5 =>
              /\ AllZero(BytesOnWire(1))
              /\ AllZero(BytesOnWire(3))
              /\ \A g \in 1..12 :
                     g \notin (3 * local + 1)..(3 * local + 3) => BytesOnWire(2)[g] = 0
              /\ ~AllZero(BytesOnWire(2))

C8_Partition == SlicesPartition /\ IndexFiveIsLocal(2)

\* C8 as the claim words it: index 5 as LED 1 of the second strip
C8_AsClaimed == SlicesPartition /\ IndexFiveIsLocal(1)

\* led counts [3, 4, 2] with only index 5 lit have been transmitted
C8_Witness ==
    /\ Len(strips) = 3
    /\ strips[1].led_count = 3 /\ strips[2].led_count = 4 /\ strips[3].led_count = 2
    /\ SentInCall(3)
    /\ OnlyIndex5
    /\ SubSeq(BytesOnWire(2), 7, 9) = <<20, 10, 30>>

-----------------------------------------------------------------------------
(* C9: set_color_at_index(i, c) with i < NUM_LEDS writes exactly one entry: *)
(* afterwards buffer[i] = c, every other entry is as before, and no pin or  *)
(* timer event has occurred.                                                *)

C9_SingleWrite ==
    [][ ( /\ pc = "set_color_at_index"
          /\ pc' # pc
          /\ call.index < Cardinality(DOMAIN color_buffer) )
        => /\ DOMAIN color_buffer' = DOMAIN color_buffer
           /\ color_buffer'[call.index] = call.color
           /\ \A k \in DOMAIN color_buffer :
                  k # call.index => color_buffer'[k] = color_buffer[k]
           /\ pins' = pins
           /\ timer' = timer
           /\ wire' = wire
           /\ pc' = "main"
      ]_vars

\* before any transmit, the buffer of at least two LEDs holds one written entry
C9_Witness ==
    /\ pc = "main"
    /\ ~timer.enabled
    /\ Cardinality(DOMAIN color_buffer) >= 2
    /\ Cardinality({k \in DOMAIN color_buffer : color_buffer[k] # DefaultColor}) = 1

-----------------------------------------------------------------------------
(* C10: set_color_at_index(i, c) with i >= the total LED count is a fatal   *)
(* indexing error at that call: the program halts there, no buffer entry is *)
(* modified, and nothing is transmitted afterwards.                         *)

C10_OutOfRangeHalts ==
    [][ /\ ( /\ pc = "set_color_at_index"
             /\ pc' # pc
             /\ call.index >= TotalLeds )
           => /\ pc' = "halt"
              /\ color_buffer' = color_buffer
              /\ pins' = pins
              /\ wire' = wire
        /\ pc = "halt"
           => /\ pc' = "halt"
              /\ color_buffer' = color_buffer
              /\ pins' = pins
              /\ wire' = wire
              /\ call' = call
      ]_vars

\* the program has halted with a written buffer, after a transmit
C10_Witness ==
    /\ pc = "halt"
    /\ \E k \in DOMAIN color_buffer : color_buffer[k] # DefaultColor
    /\ TransmitDone(1)

-----------------------------------------------------------------------------
(* C11: set_strip_to_solid_color(X) sets every entry of the buffer to X     *)
(* whatever the buffer held before, leaving its length as it was, and is    *)
(* idempotent: called on a buffer that a call with X has just filled, it    *)
(* leaves the buffer as that first call left it.                            *)

AllAre(buf, color) == \A k \in DOMAIN buf : buf[k] = color

C11_FillAll ==
    [][ (pc = "set_strip_to_solid_color" /\ pc' # pc)
        => /\ DOMAIN color_buffer' = DOMAIN color_buffer
           /\ Cardinality(DOMAIN color_buffer') = TotalLeds
           /\ AllAre(color_buffer', call.color)
           /\ AllAre(color_buffer, call.color) => color_buffer' = color_buffer
           /\ pins' = pins
           /\ wire' = wire
           /\ pc' = "main"
      ]_vars

\* the call is made again with the colour that already fills a buffer of at
\* least two LEDs
C11_Witness ==
    /\ pc = "set_strip_to_solid_color"
    /\ call.color # DefaultColor
    /\ Cardinality(DOMAIN color_buffer) >= 2
    /\ AllAre(color_buffer, call.color)

-----------------------------------------------------------------------------
(* C12: for each of the six ColorOrder variants, offsets() returns three    *)
(* values that are a permutation of {0, 1, 2}, and the six variants yield   *)
(* six different permutations; so the three bytes encoded for a LED are its *)
(* three channels, each at a place of its own.                              *)

Values(f) == {f[k] : k \in DOMAIN f}

IsPermutationOf012(f) ==
    /\ DOMAIN f = 0..2
    /\ Values(f) = {0, 1, 2}
    /\ \A j, k \in 0..2 : f[j] = f[k] => j = k

C12_OffsetsPermutation ==
    pc = "periodic_start" =>
           /\ IsPermutationOf012(offsets(strip.color_order))
           /\ \A order \in ColorOrder : IsPermutationOf012(offsets(order))
           /\ \A a, b \in ColorOrder : offsets(a) = offsets(b) => a = b
           /\ Cardinality({offsets(order) : order \in ColorOrder}) = 6
           /\ \A i \in 0..(strip.led_count - 1) :
                  LET led == LedSent(strip_idx + 1, i)
                  IN  { <<k, byte_buffer[3 * i + k]>> : k \in 0..2 } =
                          { <<offsets(strip.color_order)[0], led.r>>,
                            <<offsets(strip.color_order)[1], led.g>>,
                            <<offsets(strip.color_order)[2], led.b>> }

\* a strip of order BRG has been encoded from a LED of three different channels
C12_Witness ==
    /\ pc = "periodic_start"
    /\ strip.color_order = "BRG"
    /\ strip.led_count >= 1
    /\ color_buffer[start_index] = Color(1, 2, 3)
    /\ <<byte_buffer[0], byte_buffer[1], byte_buffer[2]>> = <<3, 1, 2>>

-----------------------------------------------------------------------------
(* C13: if the timer's match keeps occurring, every send_all_sequential     *)
(* call returns to main; and periodic_wait has no timeout: from a wait at   *)
(* which the match flag is clear, no step moves the program on, changes a   *)
(* line or emits an event, so a timer that never matches leaves the call    *)
(* blocked in that wait for ever.                                           *)

InCall == pc = "send_all_sequential" \/ InSendBits

\* control is in periodic_wait
AtWait == pc = "delay" \/ Stmt = "wait"

Position == <<pc, call, strip_idx, start_index, delay_i, bit_idx, arm_ip>>

C13_Termination ==
    /\ WF_vars(TimerMatch) => (InCall ~> (pc = "main"))
    /\ [][ (AtWait /\ ~timer.is_match2)
           => /\ Position' = Position
              /\ pins' = pins
              /\ wire' = wire
              /\ color_buffer' = color_buffer
              /\ timer'.enabled = timer.enabled ]_vars

\* a call that sent bits to every strip has returned
C13_Witness ==
    /\ pc = "main"
    /\ \A m \in 1..Len(strips) :
           /\ wire[m].pre # <<>>
           /\ Len(wire[m].bits) = 24 * strips[m].led_count
           /\ strips[m].led_count > 0

-----------------------------------------------------------------------------
(* C14: the time a strip's line is held low before its first bit, taken as  *)
(* the number of tick-waits between the reset low and the first pulse times *)
(* the period the timer was armed with (full_cycle / 3 of the WS2812        *)
(* profile, in whole nanoseconds), is at least 300000 ns.                   *)

\* the entries of strip m's preamble of one kind
PreEntries(m, kind) == {k \in DOMAIN wire[m].pre : wire[m].pre[k].ev = kind}

\* the period strip m's transmit armed the timer with
ArmedPeriod(m) == wire[m].pre[CHOOSE k \in PreEntries(m, "arm") : TRUE].arg

\* the tick-waits of strip m's preamble that came after the reset low
ResetLowWaits(m) ==
    LET low == CHOOSE k \in PreEntries(m, "low") : TRUE
        after == {k \in PreEntries(m, "wait") : k > low}
    IN  IF after = {} THEN 0 ELSE wire[m].pre[CHOOSE k \in after : TRUE].n

\* strip m's preamble is over: its first pulse has begun or its transmit is done
PreambleOver(m) ==
    \/ wire[m].bits # <<>>
    \/ wire[m].cur # <<>>
    \/ TransmitDone(m)
    \/ Transmitting(m) /\ pc = "bits"

C14_ResetLowTime ==
    \A m \in 1..Len(strips) :
        PreambleOver(m) =>
            /\ Cardinality(PreEntries(m, "arm")) = 1
            /\ Cardinality(PreEntries(m, "low")) = 1
            /\ Cardinality(PreEntries(m, "wait")) = 1
            /\ ArmedPeriod(m) = WS2812_ADAFRUIT.full_cycle \div 3
            /\ timer.match2 = ArmedPeriod(m)
            /\ ResetLowWaits(m) * ArmedPeriod(m) >= 300000

\* the first pulse of a strip has begun after 900 waits of 416 ns
C14_Witness ==
    \E m \in 1..Len(strips) :
        /\ Transmitting(m)
        /\ wire[m].bits = <<>>
        /\ Kinds(wire[m].cur) = <<"high">>
        /\ ResetLowWaits(m) * ArmedPeriod(m) = 374400

-----------------------------------------------------------------------------
(* C15: every defined timing profile (WS2811_ADAFRUIT, WS2812_ADAFRUIT) has *)
(* zero_h < one_h < full_cycle and a full_cycle that divides evenly into    *)
(* thirds, so that three ticks of the period send_bits arms the timer with  *)
(* add up to exactly one full bit cycle.                                    *)

Profiles == {WS2811_ADAFRUIT, WS2812_ADAFRUIT}

C15_CycleInThirds ==
    timer.enabled =>
        /\ \A p \in Profiles :
               /\ p.zero_h < p.one_h
               /\ p.one_h < p.full_cycle
               /\ p.full_cycle % 3 = 0
        /\ 3 * timer.match2 = WS2812_ADAFRUIT.full_cycle

-----------------------------------------------------------------------------
(* C16: when the led counts of the strips do not add up to the length of    *)
(* the buffer (more or fewer), or a strip needs more than the scratch       *)
(* buffer holds (3 * led_count above its capacity), no send_all_sequential  *)
(* call returns normally, and neither buffer is ever written past its end.  *)

SumMismatch == TotalLeds # Cardinality(DOMAIN color_buffer)

OverCapacity ==
    \E m \in 1..Len(strips) :
        3 * strips[m].led_count > MAX_SINGLE_STRIP_BYTE_BUFFER_LENGTH

\* a send_all_sequential call has returned to main
CallReturned == pc = "main" /\ wire[Len(strips)].pre # <<>>

WithinOwnedBuffers ==
    /\ DOMAIN color_buffer = 0..(NUM_LEDS - 1)
    /\ byte_buffer # <<>> =>
           DOMAIN byte_buffer = 0..(MAX_SINGLE_STRIP_BYTE_BUFFER_LENGTH - 1)

C16_InconsistencyFatal ==
    /\ (SumMismatch \/ OverCapacity) => ~CallReturned
    /\ WithinOwnedBuffers

-----------------------------------------------------------------------------
(* C17: periodic_wait returns only when the timer's match flag is set and   *)
(* has cleared it on return, changing nothing else of the timer; the flag   *)
(* is cleared by nothing but a return of periodic_wait and set by nothing   *)
(* but the timer, so each return consumes one match and successive waits    *)
(* need a match each.                                                       *)

\* a step in which periodic_wait returns
WaitReturns == AtWait /\ Position' # Position

\* the tick-waits on record for the strip being transmitted
WaitsSeen(w) ==
    LET ks == {k \in DOMAIN w.pre : w.pre[k].ev = "wait"}
    IN  (IF ks = {} THEN 0 ELSE w.pre[CHOOSE k \in ks : TRUE].n)
        + 3 * Len(w.bits)
        + (IF BitPeriodOver(w.cur) THEN 0 ELSE Waits(w.cur))

C17_WaitConsumesMatch ==
    [][ /\ WaitReturns
           => /\ timer.is_match2
              /\ ~timer'.is_match2
              /\ timer' = [timer EXCEPT !.is_match2 = FALSE]
              /\ WaitsSeen(wire'[strip_idx + 1]) = WaitsSeen(wire[strip_idx + 1]) + 1
        /\ (timer.is_match2 /\ ~timer'.is_match2) => WaitReturns
        /\ (~timer.is_match2 /\ timer'.is_match2)
           => /\ Position' = Position
              /\ wire' = wire
              /\ pins' = pins
        /\ (AtWait /\ ~timer.is_match2) => Position' = Position
      ]_vars

\* the second of two successive waits has just returned
C17_Witness ==
    /\ pc = "delay"
    /\ delay_i = 2
    /\ ~timer.is_match2
    /\ WaitsSeen(wire[strip_idx + 1]) = 2

-----------------------------------------------------------------------------
(* C18: while strip k is being transmitted, set_pin_high / set_pin_low are  *)
(* called for the line strip k's pin id names only: the level of every      *)
(* other line stays as it was, and outside send_bits no line changes.  A    *)
(* strip on the absent line (slot 2, NoPin) is transmitted like any other,  *)
(* every set call succeeding, with no line changing level.  The shipped     *)
(* table's pin ids are 0, 3 and 1: inside the 4-entry table, none of them   *)
(* the absent slot.                                                         *)

AbsentSlots == {2}

\* the set_high / set_low calls on record in a strip's transmit, by line
LinesCalled(w) ==
    { w.pre[k].arg : k \in {j \in DOMAIN w.pre : w.pre[j].ev \in {"high", "low"}} }
    \cup { w.cur[k].arg : k \in {j \in DOMAIN w.cur : w.cur[j].ev \in {"high", "low"}} }

C18_OnlyOwnLine ==
    [][ /\ InSendBits
           => /\ \A p \in DOMAIN pins : p # strip.pin => pins'[p] = pins[p]
              /\ \A m \in 1..Len(strips) : m # strip_idx + 1 => wire'[m] = wire[m]
              /\ LinesCalled(wire'[strip_idx + 1]) \subseteq {strip.pin}
              /\ \A k \in DOMAIN wire'[strip_idx + 1].bits :
                     wire'[strip_idx + 1].bits[k] \in {0, 1}
              /\ strip.pin \in AbsentSlots
                 => /\ pins' = pins
                    /\ pc' # "halt"
        /\ ~InSendBits => pins' = pins
        /\ \A m \in 1..Len(strips) :
               (strips[m].pin \in AbsentSlots /\ TransmitDone(m))
               => Len(wire[m].bits) = 24 * strips[m].led_count
        /\ strips = ShippedStrips
           => /\ <<strips[1].pin, strips[2].pin, strips[3].pin>> = <<0, 3, 1>>
              /\ \A m \in 1..Len(strips) :
                     /\ strips[m].pin \in 0..3
                     /\ strips[m].pin \notin AbsentSlots
                     /\ PinTable[strips[m].pin] # "NoPin"
      ]_vars

\* the strip on the absent line has been transmitted in full with every line
\* still low, and the strip after it is driving its own line
C18_Witness ==
    /\ strips[1].pin \in AbsentSlots
    /\ Transmitting(2)
    /\ Len(wire[1].bits) = 24 * strips[1].led_count
    /\ strips[1].led_count > 0
    /\ pins[strips[2].pin] = "high"
    /\ \A p \in DOMAIN pins : p # strips[2].pin => pins[p] = "low"

-----------------------------------------------------------------------------
(* C19: send_all_sequential changes neither the colour buffer nor the strip *)
(* table; a call made after another with no write to the buffer in between *)
(* emits, strip by strip, the same timer and line events as the call before *)
(* and returns as it did; and the bytes a strip's line has carried are      *)
(* those of its own slice under its own configuration, whatever the strips  *)
(* before it were sent.                                                     *)

\* preamble p is what preamble q was at some earlier point
PreSoFar(p, q) ==
    /\ Len(p) <= Len(q)
    /\ \A k \in DOMAIN p :
           /\ p[k].ev = q[k].ev
           /\ p[k].arg = q[k].arg
           /\ IF k < Len(p) THEN p[k].n = q[k].n ELSE p[k].n <= q[k].n

EmissionSoFar(w, l) ==
    /\ PreSoFar(w.pre, l.pre)
    /\ IsPrefix(w.bits, l.bits)

C19_SendLeavesBuffer ==
    [][ /\ (InCall \/ pc' = "send_all_sequential")
           => /\ color_buffer' = color_buffer
              /\ strips' = strips
              /\ ALL_STRIPS' = ALL_STRIPS
        /\ (InCall /\ last_wire # NoLast)
           => /\ \A m \in 1..Len(strips) : EmissionSoFar(wire[m], last_wire[m])
              /\ \A m \in 1..Len(strips) : TransmitDone(m) => wire[m] = last_wire[m]
              /\ pc' # "halt"
              /\ pc' = "main" => wire = last_wire
        /\ InCall
           => \A m \in 1..Len(strips) :
                  TransmitDone(m) => BytesOnWire(m) = BytesToSend(m)
      ]_vars

\* a second call in a row is about to return, having emitted what the first
\* did, for a buffer whose strips hold different colours
C19_Witness ==
    /\ pc = "send_all_sequential"
    /\ strip_idx = Len(strips)
    /\ last_wire # NoLast
    /\ wire = last_wire
    /\ Len(strips) >= 2
    /\ BytesOnWire(1) # <<>>
    /\ BytesOnWire(2) # <<>>
    /\ SubSeq(BytesOnWire(1), 1, 3) # SubSeq(BytesOnWire(2), 1, 3)
    /\ color_buffer[0] # color_buffer[1]

-----------------------------------------------------------------------------
(* C20: during and after a strip's transmit its line is never high across   *)
(* more than 2 tick-waits in a row, is low for at least 1 tick-wait between *)
(* two high pulses, and is low when send_bits returns; whenever             *)
(* send_all_sequential is not in progress every line is low.                *)

LevelEvents(evs) == {k \in DOMAIN evs : evs[k].ev \in {"high", "low"}}

\* the level the events leave the line at; low when there is none, as after
\* the reset low
LastLevel(evs) ==
    IF LevelEvents(evs) = {} THEN "low"
    ELSE evs[CHOOSE k \in LevelEvents(evs) : \A j \in LevelEvents(evs) : j <= k].ev

\* the tick-waits since the line was last set
WaitsSinceLevel(evs) ==
    Cardinality({k \in DOMAIN evs :
                    /\ evs[k].ev = "wait"
                    /\ \A j \in LevelEvents(evs) : j < k})

Highs(evs) == {k \in DOMAIN evs : evs[k].ev = "high"}

\* the events since the latest pulse began keep to one pulse
OnePulse(evs) ==
    /\ evs # <<>> => evs[1].ev = "high"
    /\ Cardinality(Highs(evs)) <= 1
    /\ LastLevel(evs) = "high" => WaitsSinceLevel(evs) <= 2
    /\ BitPeriodOver(evs) => (LastLevel(evs) = "low" /\ WaitsSinceLevel(evs) >= 1)

Wired(pin) == pin \in DOMAIN pins /\ pin \notin AbsentSlots

C20_LineLevels ==
    /\ \A m \in 1..Len(strips) :
           /\ OnePulse(wire[m].cur)
           /\ (Transmitting(m) /\ pc \in {"delay", "bits"} /\ Wired(strips[m].pin))
              => pins[strips[m].pin] = LastLevel(wire[m].cur)
           /\ (Transmitting(m) /\ pc = "bits" /\ wire[m].bits = <<>> /\ wire[m].cur = <<>>)
              => ResetLowWaits(m) >= 1
           /\ (InCall /\ TransmitDone(m) /\ Wired(strips[m].pin)
                 /\ \A n \in 1..Len(strips) : strips[n].pin = strips[m].pin => TransmitDone(n))
              => pins[strips[m].pin] = "low"
           /\ TransmitDone(m) => LastLevel(wire[m].cur) = "low"
    /\ ~InCall => \A p \in DOMAIN pins : pins[p] = "low"

\* between two pulses of a strip, its line has been high for two tick-waits
C20_Witness ==
    \E m \in 1..Len(strips) :
        /\ Transmitting(m)
        /\ Len(wire[m].bits) >= 1
        /\ Kinds(wire[m].cur) = <<"high", "wait", "wait">>
        /\ pins[strips[m].pin] = "high"

====
